---- MODULE Spec2Model ----
(***************************************************************************)
(* State-machine model of the task API in src/app.py: the users and tasks  *)
(* tables, the JWT gate (token_required) and the four handlers register,   *)
(* login, get_tasks and create_task.                                       *)
(*                                                                         *)
(* Time is a wall clock counted in ticks of 1/TicksPerSecond second.       *)
(* SQLite's CURRENT_TIMESTAMP and the JWT exp claim are whole seconds, so  *)
(* both are truncations of the clock.                                      *)
(***************************************************************************)
EXTENDS Integers, Sequences, FiniteSets, TLC

\* ---------------------------------------------------------------- bounds
MaxTicks == 2
MaxDays == 1
MaxTasks == 2
TicksPerSecond == 2

\* ------------------------------------------------------ program constants
TokenHours == 24
TokenLifetimeSec == TokenHours * 3600
SECRET_KEY == "your-secret-key-change-in-production"

\* --------------------------------------------------------- input domains
Workers == {"w1", "w2"}
None == "<None>"
Usernames == {"alice", "bob"}
Emails == {"a@x.com", "b@x.com"}
Passwords == {"pw123456", "hunter2"}

VARIABLES users, tasks, now, ticks, days, held, pending, last
vars == <<users, tasks, now, ticks, days, held, pending, last>>

\* ------------------------------------------------------------ JSON bodies
\* data.get(k) without its default.
GetWithoutDefault(data, k, default) ==
    IF k \in DOMAIN data THEN data[k] ELSE None

\* request.get_json() is a dict: a function from the keys present to values.
Get(data, k, default) == IF k \in DOMAIN data THEN data[k] ELSE default

\* Python truthiness of data.get(k): None and '' are falsy.
Truthy(x) == x # None /\ x # ""

\* ---------------------------------------------------------------- hashing
\* hashlib.sha256(password.encode()).hexdigest(): a deterministic digest,
\* collision-free on the passwords of the model.
hash_password(password) == <<"sha256", password>>

\* ------------------------------------------------------------------- time
\* datetime -> integer seconds (timegm of utctimetuple; CURRENT_TIMESTAMP).
Seconds(t) == t \div TicksPerSecond

\* ------------------------------------------------------------------ tokens
\* A presented credential string: a JWT (payload signed with a key), or
\* text that does not parse as one, or the empty string.
\* An exp claim without the timedelta.
jwt_encode_no_lifetime(user_id, t) ==
    [fmt |-> "jwt",
     payload |-> [user_id |-> user_id, exp |-> Seconds(t)],
     key |-> SECRET_KEY]

jwt_encode(user_id, t) ==
    [fmt |-> "jwt",
     payload |-> [user_id |-> user_id, exp |-> Seconds(t) + TokenLifetimeSec],
     key |-> SECRET_KEY]

Garbage == [fmt |-> "garbage", payload |-> [exp |-> 0], key |-> "none"]
EmptyStr == [fmt |-> "empty", payload |-> [exp |-> 0], key |-> "none"]

\* jwt.decode with options={'verify_exp': False}.
DecodeOKNoExpiry(token, t) ==
    /\ token.fmt = "jwt"
    /\ token.key = SECRET_KEY
    /\ "user_id" \in DOMAIN token.payload

\* jwt.decode(token, SECRET_KEY, algorithms=['HS256']) followed by
\* data['user_id']: any exception means failure.  The expiry test is
\* PyJWT's: the token is expired when exp <= now.
DecodeOK(token, t) ==
    /\ token.fmt = "jwt"
    /\ token.key = SECRET_KEY
    /\ ~ (token.payload.exp * TicksPerSecond <= t)
    /\ "user_id" \in DOMAIN token.payload

\* ----------------------------------------------------- Authorization header
\* request.headers.get('Authorization'): absent (None) or a string, modelled
\* as a scheme prefix followed by a credential.  The empty string is
\* scheme "" with the empty credential.
NoHeader == [present |-> FALSE, scheme |-> "", cred |-> EmptyStr]
Header(scheme, cred) == [present |-> TRUE, scheme |-> scheme, cred |-> cred]

\* `not token`: None or ''.
HeaderFalsy(h) == ~ h.present \/ (h.scheme = "" /\ h.cred.fmt = "empty")

\* if token.startswith('Bearer '): token = token[7:]
\* Any other prefix stays part of the string handed to jwt.decode, which then
\* does not parse.
StripBearer(h) ==
    IF h.scheme = "Bearer " THEN h.cred
    ELSE IF h.scheme = "" THEN h.cred
    ELSE Garbage

\* The decorator reading the payload without verifying the token.
token_required_unverified(h, t) ==
    IF HeaderFalsy(h)
    THEN [ok |-> FALSE, status |-> 401, message |-> "Token is missing", user_id |-> 0]
    ELSE LET token == StripBearer(h) IN
         IF token.fmt = "jwt" /\ "user_id" \in DOMAIN token.payload
         THEN [ok |-> TRUE, status |-> 200, message |-> "", user_id |-> token.payload.user_id]
         ELSE [ok |-> FALSE, status |-> 401, message |-> "Token is invalid", user_id |-> 0]

\* The decorator: either a 401 response, or the principal handed to f.
token_required(h, t) ==
    IF HeaderFalsy(h)
    THEN [ok |-> FALSE, status |-> 401, message |-> "Token is missing", user_id |-> 0]
    ELSE LET token == StripBearer(h) IN
         IF DecodeOK(token, t)
         THEN [ok |-> TRUE, status |-> 200, message |-> "", user_id |-> token.payload.user_id]
         ELSE [ok |-> FALSE, status |-> 401, message |-> "Token is invalid", user_id |-> 0]

\* ------------------------------------------------------------ users table
\* A schema whose only UNIQUE column is email, and one whose only UNIQUE
\* column is username.
IntegrityErrorEmailOnly(rows, username, email) ==
    \E i \in 1..Len(rows) : rows[i].email = email

IntegrityErrorUsernameOnly(rows, username, email) ==
    \E i \in 1..Len(rows) : rows[i].username = username

\* UNIQUE(username), UNIQUE(email): the insert raises sqlite3.IntegrityError.
IntegrityError(rows, username, email) ==
    \E i \in 1..Len(rows) : rows[i].username = username \/ rows[i].email = email

\* INSERT INTO users (username, email, password_hash); id is AUTOINCREMENT.
InsertUser(rows, username, email, password_hash) ==
    Append(rows, [id |-> Len(rows) + 1, username |-> username,
                  email |-> email, password_hash |-> password_hash])

\* The SELECT without its WHERE clause: fetchone() gives the first row.
SelectFirstUser(rows, email) == IF Len(rows) = 0 THEN 0 ELSE 1

\* SELECT ... FROM users WHERE email = ? ... fetchone(): a row or None (0).
SelectUserByEmail(rows, email) ==
    LET hits == {i \in 1..Len(rows) : rows[i].email = email} IN
    IF hits = {} THEN 0 ELSE CHOOSE i \in hits : \A j \in hits : i <= j

UserPayload(u) == [id |-> u.id, username |-> u.username, email |-> u.email]
NoUser == [id |-> 0, username |-> None, email |-> None]
NoToken == EmptyStr

\* ------------------------------------------------------------ tasks table
\* The INSERT binding the new row's id where the principal belongs.
InsertTaskOwnerRowId(rows, data, current_user_id, t) ==
    Append(rows, [id |-> Len(rows) + 1,
                  title |-> data["title"],
                  description |-> Get(data, "description", ""),
                  status |-> Get(data, "status", "pending"),
                  priority |-> Get(data, "priority", "medium"),
                  user_id |-> Len(rows) + 1,
                  created_at |-> Seconds(t)])

\* INSERT INTO tasks (title, description, status, priority, user_id);
\* created_at DEFAULT CURRENT_TIMESTAMP (whole seconds).
InsertTask(rows, data, current_user_id, t) ==
    Append(rows, [id |-> Len(rows) + 1,
                  title |-> data["title"],
                  description |-> Get(data, "description", ""),
                  status |-> Get(data, "status", "pending"),
                  priority |-> Get(data, "priority", "medium"),
                  user_id |-> current_user_id,
                  created_at |-> Seconds(t)])

\* The SELECT without WHERE user_id = ?.
TasksOfAnyone(rows, current_user_id) == 1..Len(rows)

\* WHERE user_id = ?
TasksOf(rows, current_user_id) ==
    {i \in 1..Len(rows) : rows[i].user_id = current_user_id}

\* ORDER BY created_at DESC: rows with equal created_at come in an order
\* SQL leaves unspecified, so every order consistent with the key is a
\* possible result.
OrderByCreatedDesc(rows, ids) ==
    LET n == Cardinality(ids) IN
    {s \in [1..n -> ids] :
        /\ \A i, j \in 1..n : i # j => s[i] # s[j]
        /\ \A i \in 1..n : \A j \in 1..n :
              i < j => rows[s[i]].created_at >= rows[s[j]].created_at}

\* SELECT * FROM tasks WHERE user_id = ? ORDER BY created_at DESC
SelectTasks(rows, current_user_id) ==
    OrderByCreatedDesc(rows, TasksOf(rows, current_user_id))

TaskDict(r) == [id |-> r.id, title |-> r.title, description |-> r.description,
                status |-> r.status, priority |-> r.priority]
NoTask == [id |-> 0, title |-> None, description |-> None,
           status |-> None, priority |-> None]

\* ------------------------------------------------------------ request sets
NoBody == [nobody |-> "1"]

\* Bodies of POST /auth/register: every combination of present fields, the
\* empty string included, and one body without a password key.
RegisterBodies ==
    [username : Usernames \cup {""}, email : Emails \cup {""},
     password : Passwords \cup {""}]
      \cup {[username |-> "alice", email |-> "a@x.com"]}

\* The two accounts of the task scenarios.
AccountBodies ==
    {[username |-> "alice", email |-> "a@x.com", password |-> "pw123456"],
     [username |-> "bob", email |-> "b@x.com", password |-> "hunter2"]}

LoginBodies ==
    [email : Emails \cup {""}, password : Passwords \cup {""}]
      \cup {[email |-> "a@x.com"]}

AccountLogins ==
    {[email |-> "a@x.com", password |-> "pw123456"],
     [email |-> "b@x.com", password |-> "hunter2"],
     [email |-> "b@x.com", password |-> "pw123456"]}

TaskBodies ==
    {[title |-> "buy milk"],
     [title |-> "Test Task", description |-> "This is a test task",
      status |-> "done", priority |-> "high"],
     [title |-> ""],
     [description |-> "no title"]}

\* Bodies of POST /tasks that store nothing: the gate does not read the body.
GateBodies == {[title |-> ""], [description |-> "no title"]}

\* ------------------------------------------------------------------ state
\* users, tasks : the two tables, in rowid order
\* now          : the wall clock, in ticks; ticks and days count its advances
\* held         : per user id, the token that user's client holds (the
\*                latest it chose to keep), or NoToken
\* pending      : per worker, the register request between its INSERT/commit
\*                and its response (NoBody when the worker is free)
\* last         : the response sent last, with the endpoint that sent it, the
\*                Authorization header and the body of its request, and the
\*                principal a task handler ran as (0: the handler did not run)
UserIds == 1..Cardinality(Usernames)

Response(op, h, data, status, message, token, user, tlist, task, principal) ==
    [op |-> op, header |-> h, body |-> data, status |-> status, message |-> message, token |-> token,
     user |-> user, tasks |-> tlist, task |-> task, principal |-> principal]

Init ==
    /\ users = <<>>
    /\ tasks = <<>>
    /\ now = 0
    /\ ticks = 0
    /\ days = 0
    /\ held = [u \in UserIds |-> NoToken]
    /\ pending = [w \in Workers |-> NoBody]
    /\ last = Response("init", NoHeader, NoBody, 0, "", NoToken, NoUser, <<>>, NoTask, 0)

\* What a client can put in the Authorization header: a token it holds, with
\* or without the Bearer prefix or under another scheme; a token signed with
\* a key that is not the server's; text that is no token; nothing.
ForgedTokens ==
    {[fmt |-> "jwt", key |-> "attacker-key",
      payload |-> [user_id |-> 1, exp |-> Seconds(now) + TokenLifetimeSec]],
     [fmt |-> "jwt", key |-> "attacker-key",
      payload |-> [exp |-> Seconds(now) + TokenLifetimeSec]]}

HeldTokens == {held[u] : u \in UserIds} \ {NoToken}

Headers ==
    {NoHeader, Header("", EmptyStr), Header("Bearer ", EmptyStr),
     Header("Bearer ", Garbage)}
      \cup {Header("Bearer ", f) : f \in ForgedTokens}
      \cup {Header(sc, tok) : sc \in {"Bearer ", "", "Basic "}, tok \in HeldTokens}

\* The client of the token's user keeps the token it is sent, or drops it.
Keep(token) ==
    {held, [held EXCEPT ![token.payload.user_id] = token]}

\* --------------------------------------------------------------- register
RegisterInvalid(data) ==
    \/ ~ Truthy(Get(data, "username", None))
    \/ ~ Truthy(Get(data, "email", None))
    \/ ~ Truthy(Get(data, "password", None))

\* register(), up to and including db.commit() or the early return.
RegisterInsert(w, data) ==
    /\ pending[w] = NoBody
    /\ IF RegisterInvalid(data)
       THEN /\ last' = Response("register", NoHeader, data, 400,
                                "Username, email and password required",
                                NoToken, NoUser, <<>>, NoTask, 0)
            /\ UNCHANGED <<users, pending>>
       ELSE IF IntegrityError(users, data.username, data.email)
       THEN /\ last' = Response("register", NoHeader, data, 400,
                                "Username or email already exists",
                                NoToken, NoUser, <<>>, NoTask, 0)
            /\ UNCHANGED <<users, pending>>
       ELSE /\ users' = InsertUser(users, data.username, data.email,
                                   hash_password(data.password))
            /\ pending' = [pending EXCEPT ![w] = data]
            /\ last' = Response("register_insert", NoHeader, data, 0, "", NoToken, NoUser,
                                <<>>, NoTask, 0)
    /\ UNCHANGED <<tasks, now, ticks, days, held>>

\* register(), from the SELECT of the created user to the 201 response.
RegisterRespond(w) ==
    /\ pending[w] # NoBody
    /\ LET data == pending[w]
           user == users[SelectUserByEmail(users, data.email)]
           token == jwt_encode(user.id, now)
       IN  /\ last' = Response("register", NoHeader, data, 201, "User created successfully",
                               token, UserPayload(user), <<>>, NoTask, 0)
           /\ held' \in Keep(token)
    /\ pending' = [pending EXCEPT ![w] = NoBody]
    /\ UNCHANGED <<users, tasks, now, ticks, days>>

\* ------------------------------------------------------------------ login
LoginInvalid(data) ==
    \/ ~ Truthy(Get(data, "email", None))
    \/ ~ Truthy(Get(data, "password", None))

Login(data) ==
    /\ IF LoginInvalid(data)
       THEN /\ last' = Response("login", NoHeader, data, 400, "Email and password required",
                                NoToken, NoUser, <<>>, NoTask, 0)
            /\ UNCHANGED held
       ELSE LET i == SelectUserByEmail(users, data.email) IN
            IF i = 0 \/ users[i].password_hash # hash_password(data.password)
            THEN /\ last' = Response("login", NoHeader, data, 401, "Invalid credentials",
                                     NoToken, NoUser, <<>>, NoTask, 0)
                 /\ UNCHANGED held
            ELSE LET token == jwt_encode(users[i].id, now) IN
                 /\ last' = Response("login", NoHeader, data, 200, "Login successful", token,
                                     UserPayload(users[i]), <<>>, NoTask, 0)
                 /\ held' \in Keep(token)
    /\ UNCHANGED <<users, tasks, now, ticks, days, pending>>

\* ------------------------------------------------------------- GET /tasks
\* The response lists the selected rows (task_list shows every column of a
\* row but user_id and updated_at).
GetTasks(h) ==
    /\ LET gate == token_required(h, now) IN
       IF ~ gate.ok
       THEN last' = Response("get_tasks", h, NoBody, gate.status, gate.message, NoToken,
                             NoUser, <<>>, NoTask, 0)
       ELSE \E s \in SelectTasks(tasks, gate.user_id) :
              last' = Response("get_tasks", h, NoBody, 200, "", NoToken, NoUser,
                               [k \in DOMAIN s |-> tasks[s[k]]], NoTask,
                               gate.user_id)
    /\ UNCHANGED <<users, tasks, now, ticks, days, held, pending>>

\* ------------------------------------------------------------ POST /tasks
CreateTask(h, data) ==
    /\ LET gate == token_required(h, now) IN
       IF ~ gate.ok
       THEN /\ last' = Response("create_task", h, data, gate.status, gate.message,
                                NoToken, NoUser, <<>>, NoTask, 0)
            /\ UNCHANGED tasks
       ELSE IF ~ Truthy(Get(data, "title", None))
       THEN /\ last' = Response("create_task", h, data, 400, "Title is required",
                                NoToken, NoUser, <<>>, NoTask, gate.user_id)
            /\ UNCHANGED tasks
       ELSE /\ Len(tasks) < MaxTasks
            /\ tasks' = InsertTask(tasks, data, gate.user_id, now)
            /\ last' = Response("create_task", h, data, 201,
                                "Task created successfully", NoToken, NoUser,
                                <<>>, TaskDict(tasks'[Len(tasks')]),
                                gate.user_id)
    /\ UNCHANGED <<users, now, ticks, days, held, pending>>

\* ------------------------------------------------------------------ clock
ClockResponse == Response("clock", NoHeader, NoBody, 0, "", NoToken, NoUser, <<>>, NoTask, 0)

Tick ==
    /\ ticks < MaxTicks
    /\ ticks' = ticks + 1
    /\ now' = now + 1
    /\ last' = ClockResponse
    /\ UNCHANGED <<users, tasks, days, held, pending>>

DayPasses ==
    /\ days < MaxDays
    /\ days' = days + 1
    /\ now' = now + TokenLifetimeSec * TicksPerSecond
    /\ last' = ClockResponse
    /\ UNCHANGED <<users, tasks, ticks, held, pending>>

\* ---------------------------------------------------------- specifications
\* Registration and login under every input and two concurrent workers.
NextUsers ==
    \/ \E w \in Workers, data \in RegisterBodies : RegisterInsert(w, data)
    \/ \E w \in Workers : RegisterRespond(w)
    \/ \E data \in LoginBodies : Login(data)
    \/ Tick

SpecUsers == Init /\ [][NextUsers]_vars

\* The task endpoints, used by two accounts whose clients send the tokens
\* they hold, or none.
TaskHeaders ==
    {NoHeader, Header("Bearer ", Garbage)}
      \cup {Header("Bearer ", tok) : tok \in HeldTokens}

Next ==
    \/ \E data \in AccountBodies : RegisterInsert("w1", data)
    \/ RegisterRespond("w1")
    \/ \E data \in AccountLogins : Login(data)
    \/ \E h \in TaskHeaders : GetTasks(h)
    \/ \E h \in TaskHeaders, data \in TaskBodies : CreateTask(h, data)
    \/ Tick

Spec == Init /\ [][Next]_vars

\* The gate of the task endpoints under every header, over more than a
\* token's lifetime.
NextGate ==
    \/ \E data \in AccountBodies : RegisterInsert("w1", data)
    \/ RegisterRespond("w1")
    \/ \E data \in AccountLogins : Login(data)
    \/ \E h \in Headers : GetTasks(h)
    \/ \E h \in Headers, data \in GateBodies : CreateTask(h, data)
    \/ Tick
    \/ DayPasses

SpecGate == Init /\ [][NextGate]_vars

\* ======================================================== claims: accounts
\* What a client sees of a response.
Visible(r) == [status |-> r.status, message |-> r.message, token |-> r.token,
               user |-> r.user]

Fresh(data) ==
    \A i \in 1..Len(users) :
        users[i].username # data.username /\ users[i].email # data.email

Taken(data) ==
    \E i \in 1..Len(users) :
        \/ users[i].email = Get(data, "email", None)
        \/ users[i].username = Get(data, "username", None)

\* C3: a registration with three non-empty fields whose username and email
\* no stored user has adds exactly one user row, holding those fields and the
\* password's digest, and is answered 201 with a token that the gate's
\* verification accepts and that resolves to the id of that row, the id of
\* the user payload.
C3_RegisterFresh ==
    [][last'.op \in {"register", "register_insert"} =>
       \A w \in Workers :
        /\ LET data == last'.body IN
             (RegisterInsert(w, data) /\ ~ RegisterInvalid(data) /\ Fresh(data))
               => /\ users' = Append(users,
                        [id |-> Len(users) + 1, username |-> data.username,
                         email |-> data.email,
                         password_hash |-> hash_password(data.password)])
                  /\ pending'[w] = data
        /\ RegisterRespond(w)
               => /\ users' = users
                  /\ last'.status = 201
                  /\ DecodeOK(last'.token, now)
                  /\ last'.token.payload.user_id = last'.user.id
                  /\ last'.user.id \in 1..Len(users)
                  /\ users[last'.user.id].id = last'.user.id
                  /\ users[last'.user.id].username = pending[w].username
                  /\ users[last'.user.id].email = pending[w].email
                  /\ last'.user.username = pending[w].username
                  /\ last'.user.email = pending[w].email]_vars

C3_Witness ==
    /\ last.op = "register"
    /\ last.status = 201
    /\ last.user.id = 2
    /\ Len(users) = 2

\* C4: no two stored users share a username or an email, in every reachable
\* state and under every interleaving of the workers; two registrations in
\* flight never hold the same email or username, and a registration whose
\* email a concurrent, not yet answered registration has inserted is answered
\* with the duplicate conflict and stores nothing.
C4_UsersUnique ==
    \A i, j \in 1..Len(users) :
        i # j => /\ users[i].username # users[j].username
                 /\ users[i].email # users[j].email

C4_InFlightDistinct ==
    \A w, v \in Workers :
        (w # v /\ pending[w] # NoBody /\ pending[v] # NoBody)
          => /\ pending[w].email # pending[v].email
             /\ pending[w].username # pending[v].username

C4_Uniqueness ==
    /\ [](C4_UsersUnique /\ C4_InFlightDistinct)
    /\ [][last'.op \in {"register", "register_insert"} =>
          \A w \in Workers :
            (/\ RegisterInsert(w, last'.body)
             /\ ~ RegisterInvalid(last'.body)
             /\ \E v \in Workers \ {w} :
                   pending[v] # NoBody /\ pending[v].email = last'.body.email)
              => /\ users' = users
                 /\ pending' = pending
                 /\ last'.status = 400
                 /\ last'.message = "Username or email already exists"]_vars

\* A duplicate conflict observed while the only stored user is the one a
\* concurrent registration has inserted and not yet answered.
C4_Witness ==
    /\ Len(users) = 1
    /\ \E w \in Workers : pending[w] # NoBody
    /\ last.op = "register"
    /\ last.status = 400
    /\ last.message = "Username or email already exists"
    /\ last.body.email = users[1].email

\* C5 as stated: a registration whose email or username a stored user has is
\* answered 400 "Username or email already exists" whatever its other fields,
\* with no token and the users unchanged.
C5_Original ==
    [][last'.op \in {"register", "register_insert"} =>
       \A w \in Workers :
        (RegisterInsert(w, last'.body) /\ Taken(last'.body))
          => /\ last'.status = 400
             /\ last'.message = "Username or email already exists"
             /\ last'.token = NoToken
             /\ users' = users]_vars

\* C5: a registration whose email or username a stored user has is answered
\* 400 with no token and the users unchanged; the message is "Username or
\* email already exists" when its three fields are all non-empty, whatever
\* they are, and "Username, email and password required" when one of them is
\* missing or empty.
C5_Duplicate ==
    [][last'.op \in {"register", "register_insert"} =>
       \A w \in Workers :
        (RegisterInsert(w, last'.body) /\ Taken(last'.body))
          => /\ last'.status = 400
             /\ last'.message =
                  IF \E k \in {"username", "email", "password"} :
                        Get(last'.body, k, "") = ""
                  THEN "Username, email and password required"
                  ELSE "Username or email already exists"
             /\ last'.token = NoToken
             /\ last'.user = NoUser
             /\ users' = users
             /\ pending' = pending]_vars

\* The second registration with a stored email under another username.
C5_Witness ==
    /\ last.op = "register"
    /\ last.status = 400
    /\ last.message = "Username or email already exists"
    /\ Len(users) = 1
    /\ pending = [w \in Workers |-> NoBody]
    /\ last.body.email = users[1].email
    /\ last.body.username # users[1].username

\* C6: a login with non-empty email and password is answered 200 with a
\* verifiable token for the user's id exactly when a stored user has that
\* email and the digest of that password; in every other case, whether the
\* email is unknown or the password wrong, the response is one and the same
\* 401 "Invalid credentials".
C6_Login ==
    (last.op = "login" /\ ~ LoginInvalid(last.body))
      => LET match == {i \in 1..Len(users) :
                         /\ users[i].email = last.body.email
                         /\ users[i].password_hash = hash_password(last.body.password)}
         IN  IF match # {}
             THEN /\ last.status = 200
                  /\ last.user.id \in {users[i].id : i \in match}
                  /\ last.user.email = last.body.email
                  /\ last.token.payload.user_id = last.user.id
                  /\ DecodeOK(last.token, now)
             ELSE Visible(last) =
                    [status |-> 401, message |-> "Invalid credentials",
                     token |-> NoToken, user |-> NoUser]

\* A wrong password for a registered email, answered 401.
C6_Witness ==
    /\ last.op = "login"
    /\ last.status = 401
    /\ \E i \in 1..Len(users) :
         /\ users[i].email = last.body.email
         /\ users[i].password_hash # hash_password(last.body.password)

\* =========================================================== claims: tasks
Bearer(u) == Header("Bearer ", held[u])

RowsOf(u) == {tasks[i] : i \in {j \in 1..Len(tasks) : tasks[j].user_id = u}}

Listed(r) == {r.tasks[k] : k \in 1..Len(r.tasks)}

\* C1: a task created under the token of user A is stored with owner A, and
\* GET /tasks under the token of user B returns exactly the stored tasks
\* whose owner is B, each once; no task of another owner is in B's list.
C1_Isolation ==
    [][last'.op \in {"get_tasks", "create_task"} =>
       \A u \in UserIds : (held[u] # NoToken /\ last'.header = Bearer(u)) =>
        /\ GetTasks(Bearer(u))
             => /\ last'.status = 200
                /\ Listed(last') = RowsOf(u)
                /\ Len(last'.tasks) = Cardinality(RowsOf(u))
                /\ \A k \in 1..Len(last'.tasks) : last'.tasks[k].user_id = u
        /\ (CreateTask(Bearer(u), last'.body) /\ last'.status = 201)
             => /\ Len(tasks') = Len(tasks) + 1
                /\ tasks'[Len(tasks')].user_id = u]_vars

\* User 2 lists its tasks while user 1 has tasks too.
C1_Witness ==
    /\ last.op = "get_tasks"
    /\ last.header = Bearer(2)
    /\ last.status = 200
    /\ Len(last.tasks) = 1
    /\ \E i \in 1..Len(tasks) : tasks[i].user_id = 1

\* C8 as stated: the list of GET /tasks is in reverse order of creation, the
\* task created last first, and is an empty 200 when the owner has none.
C8_NewestFirst ==
    (last.op = "get_tasks" /\ last.status = 200)
      => /\ \A k, l \in 1..Len(last.tasks) :
              k < l => last.tasks[k].id > last.tasks[l].id
         /\ Listed(last) = RowsOf(last.principal)

\* C9: POST /tasks under a valid token with a non-empty title is answered
\* 201 and appends exactly one task, owned by the principal, with the given
\* title and with description "", status "pending" and priority "medium"
\* for the fields the body omits; the other tasks and the users stay as they
\* were.  With the title missing or empty it is answered 400 "Title is
\* required" and stores nothing.
C9_CreateTask ==
    [][last'.op = "create_task" =>
       \A u \in UserIds, data \in {last'.body} :
        (held[u] # NoToken /\ CreateTask(Bearer(u), data)) =>
          IF "title" \in DOMAIN data /\ data.title # ""
          THEN /\ last'.status = 201
               /\ tasks' = Append(tasks,
                    [id |-> Len(tasks) + 1,
                     title |-> data.title,
                     description |-> IF "description" \in DOMAIN data
                                     THEN data.description ELSE "",
                     status |-> IF "status" \in DOMAIN data
                                THEN data.status ELSE "pending",
                     priority |-> IF "priority" \in DOMAIN data
                                  THEN data.priority ELSE "medium",
                     user_id |-> u,
                     created_at |-> now \div TicksPerSecond])
               /\ last'.task.title = data.title
               /\ last'.task.status = tasks'[Len(tasks')].status
               /\ last'.task.priority = tasks'[Len(tasks')].priority
               /\ last'.task.description = tasks'[Len(tasks')].description
               /\ users' = users
          ELSE /\ last'.status = 400
               /\ last'.message = "Title is required"
               /\ tasks' = tasks
               /\ users' = users]_vars

\* A second task, created with the defaults.
C9_Witness ==
    /\ last.op = "create_task"
    /\ last.body = [title |-> "buy milk"]
    /\ last.status = 201
    /\ Len(tasks) = 2
    /\ last.task.id = 2
    /\ last.task.description = ""
    /\ last.task.status = "pending"
    /\ last.task.priority = "medium"

\* C10: every stored task's owner id is the id of a stored user, and the
\* task created last has the principal of its request as owner.
C10_OwnerExists ==
    /\ \A i \in 1..Len(tasks) :
         \E j \in 1..Len(users) : users[j].id = tasks[i].user_id
    /\ (last.op = "create_task" /\ last.status = 201)
         => /\ tasks[Len(tasks)].user_id = last.principal
            /\ \E j \in 1..Len(users) : users[j].id = last.principal

C10_Witness ==
    /\ last.op = "create_task"
    /\ last.status = 201
    /\ Len(tasks) = 2
    /\ tasks[1].user_id # tasks[2].user_id

\* ============================================================ claims: gate
\* The token a header carries: what follows "Bearer ", or the whole value.
Carried(h) == IF h.scheme \in {"Bearer ", ""} THEN h.cred ELSE Garbage

\* Valid signature, not expired, has user_id.
Verifies(token) ==
    /\ token.fmt = "jwt"
    /\ token.key = SECRET_KEY
    /\ "user_id" \in DOMAIN token.payload
    /\ token.payload.exp * TicksPerSecond > now

GateStep(h) == GetTasks(h) \/ \E data \in GateBodies : CreateTask(h, data)

HandlerNotRun ==
    /\ last'.principal = 0
    /\ last'.tasks = <<>>
    /\ last'.task = NoTask
    /\ tasks' = tasks

Rejected(message) ==
    /\ last'.status = 401
    /\ last'.message = message
    /\ HandlerNotRun

\* C2 as stated: without a header the response is 401 "Token is missing";
\* with a header whose token fails verification it is 401 "Token is
\* invalid"; otherwise the handler runs as the token's user_id.
C2_Original ==
    [][last'.op \in {"get_tasks", "create_task"} =>
       \A h \in {last'.header} : GateStep(h) =>
          IF ~ h.present THEN Rejected("Token is missing")
          ELSE IF ~ Verifies(Carried(h)) THEN Rejected("Token is invalid")
          ELSE last'.principal = Carried(h).payload.user_id]_vars

\* C2: the handler of GET /tasks or POST /tasks runs only if the header
\* carries a token that verifies, and then as that token's user_id.  Without
\* a header, and with a header whose value is empty, the response is 401
\* "Token is missing"; with a non-empty header whose token fails verification
\* it is 401 "Token is invalid"; the handler does not run in either case.
C2_Gate ==
    [][last'.op \in {"get_tasks", "create_task"} =>
       \A h \in {last'.header} : GateStep(h) =>
          IF ~ h.present \/ h = Header("", EmptyStr)
          THEN Rejected("Token is missing")
          ELSE IF ~ Verifies(Carried(h)) THEN Rejected("Token is invalid")
          ELSE /\ last'.principal = Carried(h).payload.user_id
               /\ last'.status \in {200, 201, 400}]_vars

\* POST /tasks under a token signed with another key, refused as invalid
\* while the clients hold a token that verifies.
C2_Witness ==
    /\ last.op = "create_task"
    /\ last.header.scheme = "Bearer "
    /\ last.header.cred.fmt = "jwt"
    /\ last.header.cred.key # SECRET_KEY
    /\ last.status = 401
    /\ last.message = "Token is invalid"
    /\ \E tok \in HeldTokens : Verifies(tok)

\* C7: a token issued by register or login embeds the id of the user it is
\* issued for and an expiration of issuance time + 24 hours, in whole
\* seconds; while the gate accepts it the handler runs as that user and no
\* other; presented after its expiration instant it is answered 401 "Token
\* is invalid"; and a token refused once is refused ever after.
Issued == last'.op \in {"register", "login"} /\ last'.token # NoToken

C7_TokenLifetime ==
    [][/\ Issued =>
            /\ last'.token.payload.user_id = last'.user.id
            /\ last'.token.payload.exp * TicksPerSecond
                 <= now + TokenHours * 3600 * TicksPerSecond
            /\ last'.token.payload.exp * TicksPerSecond
                 > now + (TokenHours * 3600 - 1) * TicksPerSecond
       /\ \A u \in UserIds : held[u] # NoToken =>
            /\ held[u].payload.user_id = u
            /\ \A sc \in {"Bearer ", ""} :
                 (last'.header = Header(sc, held[u])
                    /\ GateStep(Header(sc, held[u]))) =>
                   IF now > held[u].payload.exp * TicksPerSecond
                   THEN Rejected("Token is invalid")
                   ELSE \/ Rejected("Token is invalid")
                        \/ last'.principal = u
            /\ (~ DecodeOK(held[u], now)) => ~ DecodeOK(held[u], now')]_vars

\* GET /tasks under a held token of user 2, refused after its expiration
\* instant.
C7_Witness ==
    /\ last.op = "get_tasks"
    /\ held[2] # NoToken
    /\ last.header = Bearer(2)
    /\ now > held[2].payload.exp * TicksPerSecond
    /\ last.status = 401
    /\ last.message = "Token is invalid"

====
